---- MODULE Spec2Model ----
(***************************************************************************)
(* A model of the assistant bot of task1_and_2.py: the validated fields    *)
(* (Phone, Birthday), Record, AddressBook with its upcoming-birthdays      *)
(* report, the input_error decorator and the seven command handlers.       *)
(*                                                                         *)
(* A Python str is modelled as a sequence of atoms.  An atom is a single   *)
(* character ("1", ".", " ", "a") when it comes from user input, and a     *)
(* whole literal of the source ("Contact added.", "; ") when the program   *)
(* produces it; concatenation is \o.  The atom "^2" stands for the one     *)
(* character U+00B2 SUPERSCRIPT TWO, for which str.isdigit() is true       *)
(* although it is no decimal digit.                                        *)
(***************************************************************************)
EXTENDS Integers, Sequences, FiniteSets, TLC

VARIABLES
    book,     \* AddressBook.data: the records in dict insertion order
    today,    \* the value date.today() returns
    command,  \* the command of the last input line
    arguments, \* and its arguments (args of main)
    output,   \* what the last handler call handed to the loop
    raw,      \* the string under construction as a Birthday (field check)
    field     \* the progress of that construction

vars == <<book, today, command, arguments, output, raw, field>>

----------------------------------------------------------------------------
(* Characters and strings *)

DecimalDigits == {"0", "1", "2", "3", "4", "5", "6", "7", "8", "9"}

\* characters c with c.isdigit(): the decimal digits and the digit-like
\* characters of category No, of which the alphabet holds "^2"
IsDigitChars == DecimalDigits \cup {"^2"}

DigitAtoms == <<"0", "1", "2", "3", "4", "5", "6", "7", "8", "9">>

DigitVal(c) == (CHOOSE i \in 1..10 : DigitAtoms[i] = c) - 1

\* code points of the characters names are made of
Ord(c) ==
    CASE c = "A" -> 65 [] c = "B" -> 66 [] c = "C" -> 67
      [] c = "a" -> 97 [] c = "l" -> 108 [] c = "o" -> 111 [] c = "y" -> 121

\* s < t for Python str: lexicographic by code point
RECURSIVE StrLess(_, _)
StrLess(s, t) ==
    IF t = <<>> THEN FALSE
    ELSE IF s = <<>> THEN TRUE
    ELSE IF Ord(Head(s)) # Ord(Head(t)) THEN Ord(Head(s)) < Ord(Head(t))
    ELSE StrLess(Tail(s), Tail(t))

\* sep.join(parts)
RECURSIVE Join(_, _)
Join(sep, parts) ==
    IF parts = <<>> THEN <<>>
    ELSE IF Len(parts) = 1 THEN parts[1]
    ELSE parts[1] \o sep \o Join(sep, Tail(parts))

\* str.isdigit(): non-empty and every character a digit character
isdigit(v) == Len(v) > 0 /\ \A i \in 1..Len(v) : v[i] \in IsDigitChars

----------------------------------------------------------------------------
(* Outcomes of a call: a returned value or a raised exception *)

Return(v) == [kind |-> "return", exc |-> "None", val |-> v]

Raise(e, msg) == [kind |-> "raise", exc |-> e, val |-> msg]

None == [none |-> TRUE]

----------------------------------------------------------------------------
(* datetime.date *)

Date(y, m, d) == [y |-> y, m |-> m, d |-> d]

IsLeap(y) == y % 4 = 0 /\ (y % 100 # 0 \/ y % 400 = 0)

DaysInMonth(y, m) ==
    IF m = 2 THEN (IF IsLeap(y) THEN 29 ELSE 28)
    ELSE IF m \in {4, 6, 9, 11} THEN 30 ELSE 31

\* the check of the date constructor
ValidDate(y, m, d) ==
    /\ y >= 1 /\ y <= 9999
    /\ m >= 1 /\ m <= 12
    /\ d >= 1 /\ d <= DaysInMonth(y, m)

DaysBeforeYear(y) ==
    (y - 1) * 365 + ((y - 1) \div 4) - ((y - 1) \div 100) + ((y - 1) \div 400)

RECURSIVE DaysBeforeMonth(_, _)
DaysBeforeMonth(y, m) ==
    IF m = 1 THEN 0 ELSE DaysBeforeMonth(y, m - 1) + DaysInMonth(y, m - 1)

toordinal(dt) == DaysBeforeYear(dt.y) + DaysBeforeMonth(dt.y, dt.m) + dt.d

\* date.weekday(): Monday is 0, Sunday is 6
weekday(dt) == (toordinal(dt) + 6) % 7

DateLess(a, b) == toordinal(a) < toordinal(b)

DateLeq(a, b) == toordinal(a) <= toordinal(b)

NextDay(dt) ==
    IF dt.d < DaysInMonth(dt.y, dt.m) THEN Date(dt.y, dt.m, dt.d + 1)
    ELSE IF dt.m < 12 THEN Date(dt.y, dt.m + 1, 1)
    ELSE Date(dt.y + 1, 1, 1)

\* dt + timedelta(days=n), n >= 0.  The days of the model lie in 2023..2024;
\* next to date.max (year 9999) the sum would raise OverflowError instead
RECURSIVE AddDays(_, _)
AddDays(dt, n) == IF n = 0 THEN dt ELSE AddDays(NextDay(dt), n - 1)

\* dt.replace(year=y): ValueError when the day does not exist in year y
replace_year(dt, y) ==
    IF ValidDate(y, dt.m, dt.d) THEN Return(Date(y, dt.m, dt.d))
    ELSE Raise("ValueError", <<"day is out of range for month">>)

WeekdayNames ==
    <<"Monday", "Tuesday", "Wednesday", "Thursday", "Friday", "Saturday", "Sunday">>

\* dt.strftime("%A")
DayName(dt) == WeekdayNames[weekday(dt) + 1]

----------------------------------------------------------------------------
(* Field values: Phone and Birthday *)

PhoneError == <<"Phone must contain exactly 10 digits.">>

DateError == <<"Invalid date format. Use DD.MM.YYYY">>

\* Phone.__init__ without the length check
Phone_any_length(value) ==
    IF ~isdigit(value) THEN Raise("ValueError", PhoneError)
    ELSE Return(value)

\* Phone.__init__: the stored value, or ValueError
Phone(value) ==
    IF ~(isdigit(value) /\ Len(value) = 10) THEN Raise("ValueError", PhoneError)
    ELSE Return(value)

NonZeroDigits == DecimalDigits \ {"0"}

\* the regular expression _strptime builds for %d: 3[0-1]|[1-2]\d|0[1-9]|[1-9]| [1-9]
MatchDay(f) ==
    \/ /\ Len(f) = 2
       /\ \/ f[1] = "3" /\ f[2] \in {"0", "1"}
          \/ f[1] \in {"1", "2"} /\ f[2] \in DecimalDigits
          \/ f[1] = "0" /\ f[2] \in NonZeroDigits
          \/ f[1] = " " /\ f[2] \in NonZeroDigits
    \/ Len(f) = 1 /\ f[1] \in NonZeroDigits

\* for %m: 1[0-2]|0[1-9]|[1-9]
MatchMonth(f) ==
    \/ /\ Len(f) = 2
       /\ \/ f[1] = "1" /\ f[2] \in {"0", "1", "2"}
          \/ f[1] = "0" /\ f[2] \in NonZeroDigits
    \/ Len(f) = 1 /\ f[1] \in NonZeroDigits

\* for %Y: \d\d\d\d
MatchYear(f) == Len(f) = 4 /\ \A i \in 1..4 : f[i] \in DecimalDigits

\* int(f) of a matched field (a leading space is skipped)
RECURSIVE IntOf(_)
IntOf(f) ==
    IF f = <<>> THEN 0
    ELSE LET last == f[Len(f)]
             front == SubSeq(f, 1, Len(f) - 1)
         IN IntOf(front) * 10 + (IF last = " " THEN 0 ELSE DigitVal(last))

\* datetime.strptime(value, "%d.%m.%Y").date(): the fields hold no ".", so a
\* match of the whole string splits it at its two dots
strptime(value) ==
    LET dots == {i \in 1..Len(value) : value[i] = "."}
    IN IF Cardinality(dots) # 2
       THEN Raise("ValueError", <<"time data does not match format">>)
       ELSE LET i1 == CHOOSE i \in dots : \A j \in dots : i <= j
                i2 == CHOOSE i \in dots : \A j \in dots : j <= i
                dd == SubSeq(value, 1, i1 - 1)
                mm == SubSeq(value, i1 + 1, i2 - 1)
                yy == SubSeq(value, i2 + 1, Len(value))
            IN IF ~(MatchDay(dd) /\ MatchMonth(mm) /\ MatchYear(yy))
               THEN Raise("ValueError", <<"time data does not match format">>)
               ELSE IF ~ValidDate(IntOf(yy), IntOf(mm), IntOf(dd))
               THEN Raise("ValueError", <<"day is out of range for month">>)
               ELSE Return(Date(IntOf(yy), IntOf(mm), IntOf(dd)))

\* Birthday.__init__: the stored date, or ValueError with the class's message
Birthday(value) ==
    IF strptime(value).kind = "raise" THEN Raise("ValueError", DateError)
    ELSE Return(strptime(value).val)

Pad2(n) == <<DigitAtoms[(n \div 10) + 1], DigitAtoms[(n % 10) + 1]>>

\* %Y of strftime; the model keeps years in 1000..9999, where every C library
\* gives the four digits
Year4(n) ==
    <<DigitAtoms[(n \div 1000) + 1], DigitAtoms[((n \div 100) % 10) + 1],
      DigitAtoms[((n \div 10) % 10) + 1], DigitAtoms[(n % 10) + 1]>>

\* Birthday.__str__: value.strftime("%d.%m.%Y")
Birthday_str(dt) == Pad2(dt.d) \o <<".">> \o Pad2(dt.m) \o <<".">> \o Year4(dt.y)

----------------------------------------------------------------------------
(* Record.  A method gives [res |-> its outcome, rec |-> the record after] *)

Record(name) == [name |-> name, phones |-> <<>>, birthday |-> None]

\* add_phone that puts the new phone first
Record_add_phone_first(rec, phone_value) ==
    LET p == Phone(phone_value)
    IN IF p.kind = "raise" THEN [res |-> p, rec |-> rec]
       ELSE [res |-> Return(None),
             rec |-> [rec EXCEPT !.phones = <<p.val>> \o @]]

Record_add_phone(rec, phone_value) ==
    LET p == Phone(phone_value)
    IN IF p.kind = "raise" THEN [res |-> p, rec |-> rec]
       ELSE [res |-> Return(None),
             rec |-> [rec EXCEPT !.phones = Append(@, p.val)]]

\* edit_phone that replaces every entry equal to old_value
Record_edit_phone_every(rec, old_value, new_value) ==
    LET hits == {i \in 1..Len(rec.phones) : rec.phones[i] = old_value}
        p == Phone(new_value)
    IN IF hits = {} THEN [res |-> Return(FALSE), rec |-> rec]
       ELSE IF p.kind = "raise" THEN [res |-> p, rec |-> rec]
       ELSE [res |-> Return(TRUE),
             rec |-> [rec EXCEPT !.phones =
                         [i \in 1..Len(rec.phones) |->
                             IF i \in hits THEN p.val ELSE rec.phones[i]]]]

Record_edit_phone(rec, old_value, new_value) ==
    LET hits == {i \in 1..Len(rec.phones) : rec.phones[i] = old_value}
    IN IF hits = {} THEN [res |-> Return(FALSE), rec |-> rec]
       ELSE LET i == CHOOSE k \in hits : \A j \in hits : k <= j
                p == Phone(new_value)
            IN IF p.kind = "raise" THEN [res |-> p, rec |-> rec]
               ELSE [res |-> Return(TRUE),
                     rec |-> [rec EXCEPT !.phones[i] = p.val]]

Record_add_birthday(rec, birthday_str) ==
    LET d == Birthday(birthday_str)
    IN IF d.kind = "raise" THEN [res |-> d, rec |-> rec]
       ELSE [res |-> Return(None), rec |-> [rec EXCEPT !.birthday = d.val]]

\* the atom "-" stands for the placeholder character U+2014 EM DASH
Dash == <<"-">>

Record_str(rec) ==
    LET phones_str == IF rec.phones # <<>> THEN Join(<<"; ">>, rec.phones) ELSE Dash
        bday_str == IF rec.birthday # None THEN Birthday_str(rec.birthday) ELSE Dash
    IN <<"Contact name: ">> \o rec.name \o <<", phones: ">> \o phones_str
          \o <<", birthday: ">> \o bday_str

----------------------------------------------------------------------------
(* AddressBook: a dict, here the sequence of its records in insertion order *)

HasName(b, name) == \E i \in 1..Len(b) : b[i].name = name

IndexOf(b, name) == CHOOSE i \in 1..Len(b) : b[i].name = name

\* self.data[record.name.value] = record: a present key keeps its position
add_record(b, record) ==
    IF HasName(b, record.name) THEN [b EXCEPT ![IndexOf(b, record.name)] = record]
    ELSE Append(b, record)

\* self.data.get(name)
find(b, name) == IF HasName(b, name) THEN b[IndexOf(b, name)] ELSE None

\* the dict holds the record object itself, so a method that mutates the
\* record a handler got from find() changes the book's entry
Mutated(b, rec) == [b EXCEPT ![IndexOf(b, rec.name)] = rec]

----------------------------------------------------------------------------
(* AddressBook.get_upcoming_birthdays *)

\* bucket.setdefault(k, []).append(v)
setdefault_append(bucket, k, v) ==
    IF k \in DOMAIN bucket THEN [bucket EXCEPT ![k] = Append(@, v)]
    ELSE bucket @@ (k :> <<v>>)

\* the congratulation day of birthday_this_year: weekends move to Monday
congrats_day(birthday_this_year) ==
    IF weekday(birthday_this_year) = 5 THEN AddDays(birthday_this_year, 2)
    ELSE IF weekday(birthday_this_year) = 6 THEN AddDays(birthday_this_year, 1)
    ELSE birthday_this_year

\* the closed window test of the loop body
InWindow(td, x) == DateLeq(td, x) /\ DateLeq(x, AddDays(td, 7))

\* one pass of the loop body for a record with a birthday: the outcome holds
\* whether the record is selected and under which day name
LoopBody(bday, td) ==
    LET this_year == replace_year(bday, td.y)
    IN IF this_year.kind = "raise" THEN this_year
       ELSE LET rolled == IF DateLess(this_year.val, td)
                          THEN replace_year(bday, td.y + 1)
                          ELSE this_year
            IN IF rolled.kind = "raise" THEN rolled
               ELSE IF InWindow(td, rolled.val)
               THEN Return([sel |-> TRUE, day |-> DayName(congrats_day(rolled.val))])
               ELSE Return([sel |-> FALSE, day |-> ""])

\* the loop over self.data.values(), from record i on
RECURSIVE FillBucket(_, _, _, _)
FillBucket(b, i, td, bucket) ==
    IF i > Len(b) THEN Return(bucket)
    ELSE IF b[i].birthday = None THEN FillBucket(b, i + 1, td, bucket)
    ELSE LET r == LoopBody(b[i].birthday, td)
         IN IF r.kind = "raise" THEN r
            ELSE IF r.val.sel
            THEN FillBucket(b, i + 1, td, setdefault_append(bucket, r.val.day, b[i].name))
            ELSE FillBucket(b, i + 1, td, bucket)

\* list.insert keeping the list sorted
RECURSIVE Insert(_, _)
Insert(x, s) ==
    IF s = <<>> THEN <<x>>
    ELSE IF StrLess(x, Head(s)) THEN <<x>> \o s
    ELSE <<Head(s)>> \o Insert(x, Tail(s))

\* sorted(s) for a list of str
RECURSIVE sorted(_)
sorted(s) == IF s = <<>> THEN <<>> ELSE Insert(Head(s), sorted(Tail(s)))

\* the loop for i in range(7), from i on
RECURSIVE Ordered(_, _, _)
Ordered(td, bucket, i) ==
    IF i >= 7 THEN <<>>
    ELSE LET d == DayName(AddDays(td, i))
         IN (IF d \in DOMAIN bucket
             THEN <<[day |-> d, names |-> sorted(bucket[d])]>>
             ELSE <<>>) \o Ordered(td, bucket, i + 1)

\* the report: a list of single-key dicts, or the exception of replace()
get_upcoming_birthdays(b, td) ==
    LET filled == FillBucket(b, 1, td, <<>>)
    IN IF filled.kind = "raise" THEN filled
       ELSE Return(Ordered(td, filled.val, 0))

----------------------------------------------------------------------------
(* The command handlers.  A handler gives [out |-> its outcome, book |-> the *)
(* book after the call]                                                      *)

\* the decorator without its ValueError clause
input_error_no_value(r) ==
    IF r.out.kind # "raise" THEN r
    ELSE IF r.out.exc = "KeyError"
    THEN [r EXCEPT !.out = Return(<<"Contact not found.">>)]
    ELSE IF r.out.exc = "IndexError"
    THEN [r EXCEPT !.out = Return(<<"Enter the argument for the command.">>)]
    ELSE r

\* the decorator: ValueError, KeyError and IndexError become the returned
\* text, any other exception leaves the wrapper
input_error(r) ==
    IF r.out.kind # "raise" THEN r
    ELSE IF r.out.exc = "ValueError"
    THEN [r EXCEPT !.out = Return(IF r.out.val # <<>> THEN r.out.val
                                  ELSE <<"Invalid arguments. Check command syntax.">>)]
    ELSE IF r.out.exc = "KeyError"
    THEN [r EXCEPT !.out = Return(<<"Contact not found.">>)]
    ELSE IF r.out.exc = "IndexError"
    THEN [r EXCEPT !.out = Return(<<"Enter the argument for the command.">>)]
    ELSE r

\* the ValueError of a starred unpacking "a, b, *_ = args" with too few values
UnpackAtLeast(need, got) ==
    Raise("ValueError", <<"not enough values to unpack (expected at least ",
                          DigitAtoms[need + 1], ", got ", DigitAtoms[got + 1], ")">>)

\* the ValueError of "a, b, c = args" with another number of values
UnpackExactly(need, got) ==
    IF got < need
    THEN Raise("ValueError", <<"not enough values to unpack (expected ",
                               DigitAtoms[need + 1], ", got ", DigitAtoms[got + 1], ")">>)
    ELSE Raise("ValueError", <<"too many values to unpack (expected ",
                               DigitAtoms[need + 1], ")">>)

add_contact_body(args, b) ==
    IF Len(args) < 2 THEN [out |-> UnpackAtLeast(2, Len(args)), book |-> b]
    ELSE LET name == args[1]
             phone == args[2]
             absent == find(b, name) = None
             b1 == IF absent THEN add_record(b, Record(name)) ELSE b
             message == IF absent THEN <<"Contact added.">> ELSE <<"Contact updated.">>
         IN IF phone = <<>> THEN [out |-> Return(message), book |-> b1]
            ELSE LET m == Record_add_phone(find(b1, name), phone)
                 IN IF m.res.kind = "raise" THEN [out |-> m.res, book |-> b1]
                    ELSE [out |-> Return(message), book |-> Mutated(b1, m.rec)]

add_contact(args, b) == input_error(add_contact_body(args, b))

cmd_change_body(args, b) ==
    IF Len(args) # 3 THEN [out |-> UnpackExactly(3, Len(args)), book |-> b]
    ELSE IF find(b, args[1]) = None
    THEN [out |-> Raise("KeyError", <<>>), book |-> b]
    ELSE LET m == Record_edit_phone(find(b, args[1]), args[2], args[3])
         IN IF m.res.kind = "raise" THEN [out |-> m.res, book |-> b]
            ELSE IF ~m.res.val
            THEN [out |-> Return(<<"Phone not found for this contact.">>), book |-> b]
            ELSE [out |-> Return(<<"Contact updated.">>), book |-> Mutated(b, m.rec)]

cmd_change(args, b) == input_error(cmd_change_body(args, b))

cmd_phone_body(args, b) ==
    IF Len(args) < 1
    THEN [out |-> Raise("IndexError", <<"list index out of range">>), book |-> b]
    ELSE IF find(b, args[1]) = None
    THEN [out |-> Raise("KeyError", <<>>), book |-> b]
    ELSE LET rec == find(b, args[1])
         IN [out |-> Return(IF rec.phones # <<>> THEN Join(<<"; ">>, rec.phones)
                            ELSE <<"No phones saved.">>),
             book |-> b]

cmd_phone(args, b) == input_error(cmd_phone_body(args, b))

cmd_all_body(args, b) ==
    IF b = <<>> THEN [out |-> Return(<<"No contacts saved.">>), book |-> b]
    ELSE [out |-> Return(Join(<<"\n">>, [i \in 1..Len(b) |-> Record_str(b[i])])),
          book |-> b]

cmd_all(args, b) == input_error(cmd_all_body(args, b))

add_birthday_body(args, b) ==
    IF Len(args) < 2 THEN [out |-> UnpackAtLeast(2, Len(args)), book |-> b]
    ELSE LET name == args[1]
             bday_str == args[2]
             b1 == IF find(b, name) = None THEN add_record(b, Record(name)) ELSE b
             m == Record_add_birthday(find(b1, name), bday_str)
         IN IF m.res.kind = "raise" THEN [out |-> m.res, book |-> b1]
            ELSE [out |-> Return(<<"Birthday set.">>), book |-> Mutated(b1, m.rec)]

add_birthday(args, b) == input_error(add_birthday_body(args, b))

show_birthday_body(args, b) ==
    IF Len(args) < 1
    THEN [out |-> Raise("IndexError", <<"list index out of range">>), book |-> b]
    ELSE IF find(b, args[1]) = None
    THEN [out |-> Raise("KeyError", <<>>), book |-> b]
    ELSE LET rec == find(b, args[1])
         IN [out |-> Return(IF rec.birthday # None THEN Birthday_str(rec.birthday)
                            ELSE <<"No birthday saved.">>),
             book |-> b]

show_birthday(args, b) == input_error(show_birthday_body(args, b))

\* one line of the report: f"{day}: {', '.join(names)}"
ReportLine(item) == <<item.day, ": ">> \o Join(<<", ">>, item.names)

birthdays_body(args, b, td) ==
    LET upcoming == get_upcoming_birthdays(b, td)
    IN IF upcoming.kind = "raise" THEN [out |-> upcoming, book |-> b]
       ELSE IF upcoming.val = <<>>
       THEN [out |-> Return(<<"No upcoming birthdays within the next 7 days.">>),
             book |-> b]
       ELSE [out |-> Return(Join(<<"\n">>,
                         [i \in 1..Len(upcoming.val) |-> ReportLine(upcoming.val[i])])),
             book |-> b]

birthdays(args, b, td) == input_error(birthdays_body(args, b, td))

----------------------------------------------------------------------------
(* Bounds and inputs *)

\* a record holds at most MaxPhones phones (the code sets no limit)
MaxPhones == 2

\* at most MaxElapsed midnights pass after the session starts
MaxElapsed == 1

Names == {<<"B", "o">>, <<"a", "l">>}

P1 == <<"1", "2", "3", "4", "5", "6", "7", "8", "9", "0">>

PSup == <<"^2", "^2", "^2", "^2", "^2", "^2", "^2", "^2", "^2", "^2">>

ValidPhones == {P1, PSup}

\* too short for a phone
Short == <<"1", "2", "3">>

PhoneInputs ==
    ValidPhones \cup
    { <<>>,
      Short,
      <<"1", "2", "3", "4", "5", "6", "7", "8", "9", "a">> }

\* "DD.MM.YYYY" from its three fields
Dotted(dd, mm, yy) == dd \o <<".">> \o mm \o <<".">> \o yy

LeapDay == Dotted(<<"2", "9">>, <<"0", "2">>, <<"2", "0", "0", "0">>)

\* the dates typed in a session: the leap day, padded and not, and 31 February
SessionDates ==
    { LeapDay,
      Dotted(<<"2", "9">>, <<"2">>, <<"2", "0", "0", "0">>),
      Dotted(<<"3", "1">>, <<"0", "2">>, <<"2", "0", "2", "0">>) }

ReportDates ==
    { LeapDay,
      Dotted(<<"0", "2">>, <<"0", "3">>, <<"1", "9", "9", "1">>),
      Dotted(<<"0", "3">>, <<"0", "3">>, <<"1", "9", "9", "0">>),
      Dotted(<<"0", "4">>, <<"0", "3">>, <<"1", "9", "8", "5">>),
      Dotted(<<"0", "1">>, <<"0", "1">>, <<"2", "0", "0", "1">>),
      Dotted(<<"3", "2">>, <<"0", "1">>, <<"2", "0", "0", "1">>) }

\* the day of a session: the day after the leap day of 2024
SessionStarts == {Date(2024, 3, 1)}

\* and, for the report, days around the leap day, a weekend ahead, a non-leap
\* year and the turn of the year
ReportStarts ==
    { Date(2024, 2, 24), Date(2024, 2, 26), Date(2024, 2, 28), Date(2024, 3, 1),
      Date(2024, 3, 3), Date(2023, 2, 25), Date(2023, 12, 25) }

\* the argument lists of "add": too few tokens, name and phone, one too many
AddArgs ==
    {<<>>} \cup {<<n>> : n \in Names}
           \cup {<<n, p>> : n \in Names, p \in PhoneInputs}
           \cup {<<n, P1, Short>> : n \in Names}

\* of "change": the old phone may be absent, the new one invalid
ChangeArgs ==
    {<<>>, <<P1, P1, P1, P1>>}
        \cup {<<n>> : n \in Names}
        \cup {<<n, P1>> : n \in Names}
        \cup {<<n, old, new>> : n \in Names, old \in ValidPhones,
                                new \in ValidPhones \cup {Short}}

\* of "phone" and "show-birthday"
NameArgs == {<<>>} \cup {<<n>> : n \in Names} \cup {<<n, P1>> : n \in Names}

\* of "all" and "birthdays", which read no argument
AnyArgs == {<<>>, <<P1>>}

\* of "add-birthday"
BirthdayArgs(dates) ==
    {<<>>} \cup {<<n>> : n \in Names}
           \cup {<<n, d>> : n \in Names, d \in dates}
           \cup {<<n, LeapDay, Short>> : n \in Names}


----------------------------------------------------------------------------
(* The session: one action per command of main()'s loop.  A session begins *)
(* and ends on one day; the report over passing days is SpecReport below.  *)

Welcome == Return(<<"Welcome to the assistant bot!">>)

Idle == [stage |-> "idle", res |-> None, text |-> <<>>]

Init ==
    /\ book = <<>>
    /\ today \in SessionStarts
    /\ command = ""
    /\ arguments = <<>>
    /\ output = Welcome
    /\ raw = <<>>
    /\ field = Idle

WithinBound(b) == \A i \in 1..Len(b) : Len(b[i].phones) <= MaxPhones

Handle(cmd, a, r) ==
    /\ WithinBound(r.book)
    /\ book' = r.book
    /\ command' = cmd
    /\ arguments' = a
    /\ output' = r.out
    /\ UNCHANGED <<today, raw, field>>

Add == \E a \in AddArgs : Handle("add", a, add_contact(a, book))

Change == \E a \in ChangeArgs : Handle("change", a, cmd_change(a, book))

ShowPhone == \E a \in NameArgs : Handle("phone", a, cmd_phone(a, book))

ShowAll == \E a \in AnyArgs : Handle("all", a, cmd_all(a, book))

AddBirthday(dates) ==
    \E a \in BirthdayArgs(dates) : Handle("add-birthday", a, add_birthday(a, book))

ShowBirthday == \E a \in NameArgs : Handle("show-birthday", a, show_birthday(a, book))

Birthdays == \E a \in AnyArgs : Handle("birthdays", a, birthdays(a, book, today))

\* midnight: date.today() moves on
DayPasses ==
    /\ \E s \in ReportStarts :
          /\ toordinal(s) <= toordinal(today)
          /\ toordinal(today) - toordinal(s) < MaxElapsed
    /\ today' = NextDay(today)
    /\ UNCHANGED <<book, command, arguments, output, raw, field>>

AddSessionBirthday == AddBirthday(SessionDates)

Next ==
    \/ Add
    \/ Change
    \/ ShowPhone
    \/ ShowAll
    \/ AddSessionBirthday
    \/ ShowBirthday
    \/ Birthdays

Spec == Init /\ [][Next]_vars

----------------------------------------------------------------------------
(* The report on its own: birthdays set for the contacts, read on    *)
(* days around a leap day, a weekend and the turn of the year                *)

InitReport ==
    /\ book = <<>>
    /\ today \in ReportStarts
    /\ command = ""
    /\ arguments = <<>>
    /\ output = Welcome
    /\ raw = <<>>
    /\ field = Idle

AddReportBirthday == AddBirthday(ReportDates)

NextReport ==
    \/ AddReportBirthday
    \/ Birthdays
    \/ DayPasses

SpecReport == InitReport /\ [][NextReport]_vars

----------------------------------------------------------------------------
(* The Birthday field on its own: a string is constructed as a Birthday and, *)
(* when the construction succeeds, rendered by __str__                       *)

DayTexts ==
    { <<"0", "1">>, <<"1">>, <<" ", "1">>, <<"2", "9">>, <<"3", "1">>,
      <<"3", "2">>, <<"0", "0">>, <<"a", "a">>, <<"^2", "9">> }

MonthTexts == { <<"0", "2">>, <<"2">>, <<"0", "4">>, <<"1", "2">>, <<"1", "3">> }

YearTexts ==
    { <<"2", "0", "2", "3">>, <<"2", "0", "2", "4">>, <<"2", "4">>,
      <<"2", "0", "2", "4", "0">> }

Separators == {".", "-"}

DateTexts ==
    { dd \o <<sep>> \o mm \o <<sep>> \o yy :
        dd \in DayTexts, mm \in MonthTexts, yy \in YearTexts, sep \in Separators }

InitDate ==
    /\ book = <<>>
    /\ today \in SessionStarts
    /\ command = ""
    /\ arguments = <<>>
    /\ output = Welcome
    /\ raw \in DateTexts
    /\ field = [stage |-> "text", res |-> None, text |-> <<>>]

\* Birthday(raw)
Construct ==
    /\ field.stage = "text"
    /\ field' = [stage |-> "built", res |-> Birthday(raw), text |-> <<>>]
    /\ UNCHANGED <<book, today, command, arguments, output, raw>>

\* str() of the Birthday built
Render ==
    /\ field.stage = "built"
    /\ field.res.kind = "return"
    /\ field' = [field EXCEPT !.stage = "rendered", !.text = Birthday_str(field.res.val)]
    /\ UNCHANGED <<book, today, command, arguments, output, raw>>

NextDate ==
    \/ Construct
    \/ Render

SpecDate == InitDate /\ [][NextDate]_vars

----------------------------------------------------------------------------
(* Properties of the command handlers, checked under Spec *)

EnterArgument == <<"Enter the argument for the command.">>

\* the number of arguments a command requires
Required(cmd) ==
    CASE cmd \in {"add", "add-birthday"} -> 2
      [] cmd = "change" -> 3
      [] cmd \in {"phone", "show-birthday"} -> 1
      [] OTHER -> 0

\* the handler's result is this text and the book is as before the call
Answers(r, text, b) == r.out.kind = "return" /\ r.out.val = text /\ r.book = b

\* C1: every handler with required arguments (add, change, phone,
\* add-birthday, show-birthday), called in any reachable book with fewer
\* tokens than it requires, returns exactly "Enter the argument for the
\* command." and leaves the book unchanged.
C1_MissingArgument ==
    [][ Len(arguments') < Required(command')
           => output' = Return(EnterArgument) /\ book' = book ]_vars

\* what does hold of the handlers that index their arguments (phone and
\* show-birthday): with no token they answer "Enter the argument for the
\* command."; the handlers that unpack them (add, change, add-birthday)
\* answer the interpreter's unpacking message instead, the book unchanged
MissingArgument_AsCoded ==
    /\ Answers(cmd_phone(<<>>, book), EnterArgument, book)
    /\ Answers(show_birthday(<<>>, book), EnterArgument, book)
    /\ \A args \in AddArgs :
          Len(args) < 2 =>
             Answers(add_contact(args, book), UnpackAtLeast(2, Len(args)).val, book)
    /\ \A args \in ChangeArgs :
          Len(args) < 3 =>
             Answers(cmd_change(args, book), UnpackExactly(3, Len(args)).val, book)
    /\ \A args \in BirthdayArgs(SessionDates) :
          Len(args) < 2 =>
             Answers(add_birthday(args, book), UnpackAtLeast(2, Len(args)).val, book)

\* a displayable string: a sequence of atoms
IsText(v) == v \in Seq(STRING)

AllDays == SessionStarts \cup ReportStarts

\* C2: every handler, for every argument list and every reachable book (also
\* a book with a 29 February birthday read in a year, or before a year, that
\* is no leap year), returns a string: what the loop receives is never an
\* exception.
C2_AlwaysReturns ==
    /\ output.kind = "return" /\ IsText(output.val)
    /\ \A td \in AllDays :
          LET r == birthdays(<<>>, book, td)
          IN r.out.kind = "return" /\ IsText(r.out.val)

HasLeapBirthday(b) ==
    \E i \in 1..Len(b) : b[i].birthday # None /\ b[i].birthday.m = 2 /\ b[i].birthday.d = 29

\* the report of a book with a leap-day birthday was asked for after the leap
\* day of 2024, when the occurrence is sought in 2025, and the fault came back
\* as text
C2_Witness ==
    /\ command = "birthdays"
    /\ HasLeapBirthday(book)
    /\ ~IsLeap(today.y + 1)
    /\ output = Return(<<"day is out of range for month">>)

\* the phones of the record named n, none when there is no such record
PhonesOf(b, n) == IF HasName(b, n) THEN find(b, n).phones ELSE <<>>

\* C3: in any reachable book, add name phone with a valid phone returns
\* "Contact added." exactly when no record had that name and "Contact
\* updated." otherwise; either way the phone is appended after the record's
\* earlier phones, which stay in place (duplicates too), and phone name then
\* returns the phones joined by "; " in insertion order.
C3_AddAppends ==
    \A n \in Names, p \in ValidPhones :
       LET r == add_contact(<<n, p>>, book)
           after == Append(PhonesOf(book, n), p)
       IN /\ r.out.kind = "return"
          /\ r.out.val = (IF HasName(book, n) THEN <<"Contact updated.">>
                          ELSE <<"Contact added.">>)
          /\ HasName(r.book, n)
          /\ PhonesOf(r.book, n) = after
          /\ \A k \in 1..Len(PhonesOf(book, n)) :
                PhonesOf(r.book, n)[k] = PhonesOf(book, n)[k]
          /\ cmd_phone(<<n>>, r.book).out = Return(Join(<<"; ">>, after))

\* an add on an existing record has appended a second, equal phone
C3_Witness ==
    /\ command = "add"
    /\ output = Return(<<"Contact updated.">>)
    /\ \E i \in 1..Len(book) : book[i].phones = <<P1, P1>>


\* exactly 10 characters, all of them digits in the sense of str.isdigit
TenDigits(p) == Len(p) = 10 /\ \A k \in 1..Len(p) : p[k] \in IsDigitChars

\* the first position of v in the list s, 0 when it is not there
FirstAt(s, v) ==
    IF \E k \in 1..Len(s) : s[k] = v
    THEN CHOOSE k \in 1..Len(s) : s[k] = v /\ \A j \in 1..(k - 1) : s[j] # v
    ELSE 0

\* C4: edit_phone(old, new) on any record of a reachable book: when old is
\* not in the list it returns false and the list is as before; when old is
\* there and new is no valid phone it fails with the validation error and the
\* list is as before; when it succeeds the first entry equal to old, and no
\* other, holds new, at the same index, and the length is unchanged.  The
\* change command leaves the book as it was unless the edit succeeds.
C4_EditPhone ==
    \A i \in 1..Len(book), old \in PhoneInputs, new \in PhoneInputs :
       LET rec == book[i]
           m == Record_edit_phone(rec, old, new)
           at == FirstAt(rec.phones, old)
           c == cmd_change(<<rec.name, old, new>>, book)
       IN IF at = 0
          THEN /\ m.res.kind = "return" /\ m.res.val = FALSE
               /\ m.rec = rec
               /\ Answers(c, <<"Phone not found for this contact.">>, book)
          ELSE IF ~TenDigits(new)
          THEN /\ m.res.kind = "raise" /\ m.res.exc = "ValueError"
               /\ m.res.val = PhoneError
               /\ m.rec = rec
               /\ Answers(c, PhoneError, book)
          ELSE /\ m.res.kind = "return" /\ m.res.val = TRUE
               /\ m.rec.name = rec.name /\ m.rec.birthday = rec.birthday
               /\ Len(m.rec.phones) = Len(rec.phones)
               /\ \A k \in 1..Len(rec.phones) :
                     m.rec.phones[k] = (IF k = at THEN new ELSE rec.phones[k])
               /\ c.out = Return(<<"Contact updated.">>)
               /\ c.book = [book EXCEPT ![i] = m.rec]

\* a change has replaced the first of two equal phones and kept the second
C4_Witness ==
    /\ command = "change"
    /\ output = Return(<<"Contact updated.">>)
    /\ \E i \in 1..Len(book) : book[i].phones = <<PSup, P1>>

C10_FailedCommandKeepsBook ==
    [][ ( /\ command' \in {"add", "add-birthday"}
          /\ output' \in {Return(PhoneError), Return(DateError)} )
           => book' = book ]_vars

\* what does hold: such a command changes no record that was in the book, and
\* when the name was absent it leaves behind a new record of that name with
\* no phone and no birthday
FailedCommand_AsCoded ==
    /\ \A args \in AddArgs :
          LET r == add_contact(args, book)
          IN (r.out.kind = "return" /\ r.out.val = PhoneError) =>
                r.book = (IF HasName(book, args[1]) THEN book
                          ELSE Append(book, Record(args[1])))
    /\ \A args \in BirthdayArgs(SessionDates) :
          LET r == add_birthday(args, book)
          IN (r.out.kind = "return" /\ r.out.val = DateError) =>
                r.book = (IF HasName(book, args[1]) THEN book
                          ELSE Append(book, Record(args[1])))


----------------------------------------------------------------------------
(* Properties of the upcoming-birthdays report, checked under SpecReport *)

Report == get_upcoming_birthdays(book, today)

\* the entries of the report; a report that failed lists nothing
Entries == IF Report.kind = "return" THEN Report.val ELSE <<>>

ListedUnder(name, day) ==
    \E i \in 1..Len(Entries) :
       Entries[i].day = day /\ \E k \in 1..Len(Entries[i].names) : Entries[i].names[k] = name

Appears(name) == \E i \in 1..Len(Entries) : ListedUnder(name, Entries[i].day)

\* the birthday's date in today's year if that is not before today, else its
\* date in the next year; a 29 February has no such date in a common year
HasOccurrence(bd, td) ==
    /\ ValidDate(td.y, bd.m, bd.d)
    /\ DateLess(Date(td.y, bd.m, bd.d), td) => ValidDate(td.y + 1, bd.m, bd.d)

Occurrence(bd, td) ==
    IF DateLess(Date(td.y, bd.m, bd.d), td) THEN Date(td.y + 1, bd.m, bd.d)
    ELSE Date(td.y, bd.m, bd.d)

\* today <= X <= today + 7 days
Within7(bd, td) ==
    /\ toordinal(Occurrence(bd, td)) - toordinal(td) >= 0
    /\ toordinal(Occurrence(bd, td)) - toordinal(td) <= 7

\* the records the window selects
Selected ==
    {i \in 1..Len(book) : /\ book[i].birthday # None
                          /\ HasOccurrence(book[i].birthday, today)
                          /\ Within7(book[i].birthday, today)}

WeekendShift ==
    /\ \A i \in Selected :
          LET x == Occurrence(book[i].birthday, today)
          IN /\ weekday(x) = 5 =>
                  /\ ListedUnder(book[i].name, "Monday")
                  /\ toordinal(congrats_day(x)) = toordinal(x) + 2
             /\ weekday(x) = 6 =>
                  /\ ListedUnder(book[i].name, "Monday")
                  /\ toordinal(congrats_day(x)) = toordinal(x) + 1
             /\ weekday(x) < 5 =>
                  /\ ListedUnder(book[i].name, WeekdayNames[weekday(x) + 1])
                  /\ congrats_day(x) = x
    /\ \A i \in 1..Len(Entries) : Entries[i].day \notin {"Saturday", "Sunday"}

\* C5: after the birthdays command, for every today and every book, a contact
\* whose occurrence in the window is a Saturday or a Sunday is listed under
\* "Monday" (Saturday moved by 2 days, Sunday by 1), one whose occurrence is a
\* weekday is listed under that weekday, and no entry is named "Saturday" or
\* "Sunday".
C5_WeekendToMonday == command = "birthdays" => WeekendShift

\* what does hold: the same, whenever the report is produced
WeekendShift_WhenReported == Report.kind = "return" => WeekendShift

WindowRule ==
    /\ \A i \in 1..Len(book) :
          (book[i].birthday # None /\ HasOccurrence(book[i].birthday, today)) =>
             (Appears(book[i].name) <=> Within7(book[i].birthday, today))
    /\ \A i \in 1..Len(book) : book[i].birthday = None => ~Appears(book[i].name)

\* C6: after the birthdays command, for every today and every record with a
\* birthday, with X the birthday's date in today's year if that is not before
\* today and else in the next year, the name appears in the report if and
\* only if today <= X <= today + 7 days; records without a birthday never
\* appear.
C6_WindowInclusive == command = "birthdays" => WindowRule

\* what does hold: the same, whenever the report is produced
WindowRule_WhenReported == Report.kind = "return" => WindowRule

\* the place of a day name in the week that starts today
PlaceFromToday(day) == CHOOSE k \in 0..6 : DayName(AddDays(today, k)) = day

\* how often the name stands in the report
Mentions(name) ==
    Cardinality({<<i, k>> \in (1..Len(Entries)) \X (1..Len(book)) :
                    k <= Len(Entries[i].names) /\ Entries[i].names[k] = name})

ReportShape ==
    /\ \A i, j \in 1..Len(Entries) :
          i < j => /\ Entries[i].day # Entries[j].day
                   /\ PlaceFromToday(Entries[i].day) < PlaceFromToday(Entries[j].day)
    /\ \A i \in 1..Len(Entries) : Len(Entries[i].names) >= 1
    /\ \A i \in Selected : Mentions(book[i].name) = 1
    /\ \A i \in 1..Len(Entries) : \A k, l \in 1..Len(Entries[i].names) :
          k < l => StrLess(Entries[i].names[k], Entries[i].names[l])

\* C9: after the birthdays command the report lists each weekday name at most
\* once, in the order of the weekdays of today, today+1, ..., today+6, and
\* only weekdays with a name; every name the window selects stands in exactly
\* one entry, and the names of an entry are sorted ascending whatever the
\* order of insertion.
C9_ReportShape == command = "birthdays" => ReportShape

\* what does hold: the same, whenever the report is produced
ReportShape_WhenReported == Report.kind = "return" => ReportShape


----------------------------------------------------------------------------
(* Properties of the Birthday field, checked under SpecDate *)

\* a zero-padded DD.MM.YYYY string that names a real calendar date
ZeroPaddedDate(t) ==
    /\ Len(t) = 10
    /\ t[3] = "." /\ t[6] = "."
    /\ \A k \in {1, 2, 4, 5, 7, 8, 9, 10} : t[k] \in DecimalDigits
    /\ ValidDate(IntOf(SubSeq(t, 7, 10)), IntOf(SubSeq(t, 4, 5)), IntOf(SubSeq(t, 1, 2)))

Constructed == field.stage \in {"built", "rendered"}

Accepted == Constructed /\ field.res.kind = "return"

Rejected == Constructed /\ field.res.kind = "raise" /\ field.res.val = DateError

\* C7: Birthday construction accepts a string only if it is a zero-padded
\* DD.MM.YYYY real calendar date, rendering an accepted string gives back
\* exactly that string, and every other string is rejected with the
\* validation error.
C7_BirthdayRoundTrip ==
    /\ Accepted => ZeroPaddedDate(raw)
    /\ field.stage = "rendered" => field.text = raw
    /\ (Constructed /\ ~ZeroPaddedDate(raw)) => Rejected

\* what does hold: every zero-padded real date is accepted and rendered back
\* unchanged; a string with a one-digit or space-padded day, or a one-digit
\* month, is accepted too and rendered zero-padded, as a string that is itself
\* accepted as the same date; the construction either gives a date or fails
\* with the validation error
Birthday_AsCoded ==
    /\ Constructed => (Accepted \/ Rejected)
    /\ (Constructed /\ ZeroPaddedDate(raw)) => Accepted
    /\ (field.stage = "rendered" /\ ZeroPaddedDate(raw)) => field.text = raw
    /\ field.stage = "rendered" =>
          /\ ZeroPaddedDate(field.text)
          /\ Birthday(field.text) = field.res

====
